---------------------------- MODULE Spec2Model ----------------------------
(***************************************************************************)
(* Model of VCS::AutomationTrackDiffLogic of Helio Workstation             *)
(* (Source/Core/VCS/DiffLogic/AutomationTrackDiffLogic.cpp): the diff and  *)
(* the merge of the deltas of an automation track.                         *)
(*                                                                         *)
(* A SerializedData tree is a record [valid, tag, value, children]: the    *)
(* payload of a scalar delta keeps its content in value, the payload of an *)
(* events or clips delta keeps its records in children (in tree order).    *)
(* A default-constructed SerializedData is Invalid.                        *)
(***************************************************************************)
EXTENDS Integers, Sequences, FiniteSets

VARIABLES
    evState,     \* events level: the state payload handed to a merge / diff
    evChanges,   \* events level: the changes payload
    evResult,    \* events level: the SerializedData a merge returned
    evDiffs,     \* events level: the Array<DeltaDiff> createAutoEventsDiffs returned
    evOp,        \* events level: the function that ran last ("none" before)
    state,       \* item level: initialState, a sequence of [delta, data]
    target,      \* item level: this->target, a sequence of [delta, data]
    diff,        \* item level: the deltas of the Diff createDiff returned
    merged,      \* item level: the deltas of the Diff createMergedItem returned
    pc           \* item level: the call that ran last ("start" before)

vars == <<evState, evChanges, evResult, evDiffs, evOp, state, target, diff, merged, pc>>

evVars == <<evState, evChanges, evResult, evDiffs, evOp>>

itemVars == <<state, target, diff, merged, pc>>

---------------------------------------------------------------------------
(* Bounds *)

\* ids of the state side are 1..MaxId, ids of the changes side 2..MaxId+1
MaxId == 2

\* a snapshot holds at most MaxDeltas deltas
MaxDeltas == 2

\* scalar payload contents are 0..MaxScalar (0 is the empty/default content)
MaxScalar == 1

StateIds == 1..MaxId

ChangesIds == 2..(MaxId + 1)

FieldValues == {0, 1}

---------------------------------------------------------------------------
(* Serialization keys (Serialization::VCS, Serialization::Midi) *)

trackPath == "trackPath"

trackColour == "trackColour"

trackInstrument == "trackInstrument"

trackController == "trackController"

timeSignaturesChanged == "timeSignaturesChanged"

eventsAdded == "eventsAdded"

eventsRemoved == "eventsRemoved"

eventsChanged == "eventsChanged"

clipsAdded == "clipsAdded"

clipsRemoved == "clipsRemoved"

clipsChanged == "clipsChanged"

\* a delta type of another track kind, which this DiffLogic has no branch for
notesAdded == "notesAdded"

headStateDelta == "head state"

---------------------------------------------------------------------------
(* SerializedData *)

Invalid == [valid |-> FALSE, tag |-> "", value |-> 0, children |-> <<>>]

\* SerializedData tree(tag): a valid tree with no content
EmptyTree(tag) == [valid |-> TRUE, tag |-> tag, value |-> 0, children |-> <<>>]

ScalarTree(tag, v) == [valid |-> TRUE, tag |-> tag, value |-> v, children |-> <<>>]

isValid(data) == data.valid

createCopy(data) == data

isEquivalentTo(a, b) == a = b

DeltaDescription(text) == <<text>>

DeltaDescriptionN(text, numChanges) == <<text, numChanges>>

Delta(description, type) == [type |-> type, description |-> description]

hasType(delta, type) == delta.type = type

\* Diff::applyDelta: the Diff is an ordered collection, a delta is added at its end
applyDelta(deltas, delta, data) == Append(deltas, [delta |-> delta, data |-> data])

\* Diff::applyDeltas, for the Array<DeltaDiff> of a collection diff
RECURSIVE applyDeltas(_, _)
applyDeltas(deltas, deltaDiffs) ==
    IF deltaDiffs = <<>> THEN deltas
    ELSE applyDeltas(applyDelta(deltas, Head(deltaDiffs).delta, Head(deltaDiffs).deltaData),
                     Tail(deltaDiffs))

---------------------------------------------------------------------------
(* Sequence helpers *)

Range(s) == {s[i] : i \in 1..Len(s)}

Ids(s) == {s[i].id : i \in 1..Len(s)}

UniqueIds(s) == \A i, j \in 1..Len(s) : s[i].id = s[j].id => i = j

\* MidiEvent ordering used by addSorted: by beat, then by id
CompareElements(first, second) ==
    IF first.beat # second.beat
    THEN (IF first.beat > second.beat THEN 1 ELSE -1)
    ELSE IF first.id # second.id
         THEN (IF first.id > second.id THEN 1 ELSE -1)
         ELSE 0

\* OwnedArray::addSorted: insert after the last element that is not greater
AddSorted(arr, e) ==
    LET before == {i \in 1..Len(arr) : CompareElements(e, arr[i]) >= 0}
        k == IF before = {} THEN 0
             ELSE CHOOSE i \in before : \A j \in before : j <= i
    IN SubSeq(arr, 1, k) \o <<e>> \o SubSeq(arr, k + 1, Len(arr))

RECURSIVE AddAllSorted(_, _)
AddAllSorted(arr, children) ==
    IF children = <<>> THEN arr
    ELSE AddAllSorted(AddSorted(arr, Head(children)), Tail(children))

\* one side of deserializeAutoTrackChanges
DeserializeNotes(data) ==
    IF isValid(data) THEN AddAllSorted(<<>>, data.children) ELSE <<>>

deserializeAutoTrackChanges(st, ch) ==
    [stateNotes |-> DeserializeNotes(st), changesNotes |-> DeserializeNotes(ch)]

serializeAutoSequence(changes, tag) ==
    [valid |-> TRUE, tag |-> tag, value |-> 0, children |-> changes]

serializeAutoTrackChanges(changes, description, numChanges, deltaType) ==
    [delta |-> Delta(DeltaDescriptionN(description, numChanges), deltaType),
     deltaData |-> serializeAutoSequence(changes, deltaType)]

---------------------------------------------------------------------------
(* Merge *)

\* mutant: the controller of the state is kept
mergeControllerKeepsState(st, ch) == createCopy(st)

mergeController(st, ch) == createCopy(ch)

FoundById(notes, note) == \E j \in 1..Len(notes) : notes[j].id = note.id

NotFoundIn(notes, note) == ~FoundById(notes, note)

\* mutant: for an id in both, the record of the changes replaces the one of the state
mergeAutoEventsAddedChangesWin(st, ch) ==
    LET d == deserializeAutoTrackChanges(st, ch)
        kept == SelectSeq(d.stateNotes, LAMBDA s : NotFoundIn(d.changesNotes, s))
    IN serializeAutoSequence(kept \o d.changesNotes, eventsAdded)

\* mutant: an invalid state payload makes the merge give up
mergeAutoEventsAddedInvalidState(st, ch) ==
    IF ~isValid(st) THEN Invalid
    ELSE LET d == deserializeAutoTrackChanges(st, ch)
         IN serializeAutoSequence(
                d.stateNotes \o SelectSeq(d.changesNotes,
                                          LAMBDA c : NotFoundIn(d.stateNotes, c)),
                eventsAdded)

\* mutant: every record of the changes is added, also one whose id the state has
mergeAutoEventsAddedNoIdCheck(st, ch) ==
    LET d == deserializeAutoTrackChanges(st, ch)
    IN serializeAutoSequence(d.stateNotes \o d.changesNotes, eventsAdded)

mergeAutoEventsAdded(st, ch) ==
    LET d == deserializeAutoTrackChanges(st, ch)
        added == SelectSeq(d.changesNotes, LAMBDA c : NotFoundIn(d.stateNotes, c))
    IN serializeAutoSequence(d.stateNotes \o added, eventsAdded)

\* mutant: a record of the state is removed only if the changes hold an equal record
mergeAutoEventsRemovedByValue(st, ch) ==
    LET d == deserializeAutoTrackChanges(st, ch)
        kept == SelectSeq(d.stateNotes, LAMBDA s : s \notin Range(d.changesNotes))
    IN serializeAutoSequence(kept, eventsAdded)

mergeAutoEventsRemoved(st, ch) ==
    LET d == deserializeAutoTrackChanges(st, ch)
        kept == SelectSeq(d.stateNotes, LAMBDA s : NotFoundIn(d.changesNotes, s))
    IN serializeAutoSequence(kept, eventsAdded)

\* The result array of mergeAutoEventsChanged holds pointers: a pointer is
\* modelled as [side, idx], the side's array and the index in it.
RemoveAllInstancesOf(result, ptr) == SelectSeq(result, LAMBDA p : p # ptr)

AddIfNotAlreadyThere(result, ptr) ==
    IF \E k \in 1..Len(result) : result[k] = ptr THEN result ELSE Append(result, ptr)

FirstMatch(notes, note) ==
    CHOOSE j \in 1..Len(notes) :
        /\ notes[j].id = note.id
        /\ \A k \in 1..(j - 1) : notes[k].id # note.id

RECURSIVE ChangedLoop(_, _, _, _)
ChangedLoop(result, i, stateNotes, changesNotes) ==
    IF i > Len(stateNotes) THEN result
    ELSE IF FoundById(changesNotes, stateNotes[i])
         THEN LET j == FirstMatch(changesNotes, stateNotes[i])
                  removed == RemoveAllInstancesOf(result, [side |-> "state", idx |-> i])
              IN ChangedLoop(AddIfNotAlreadyThere(removed, [side |-> "changes", idx |-> j]),
                             i + 1, stateNotes, changesNotes)
         ELSE ChangedLoop(result, i + 1, stateNotes, changesNotes)

\* mutant: a record of the changes whose id the state does not have is added
mergeAutoEventsChangedUpsert(st, ch) ==
    LET d == deserializeAutoTrackChanges(st, ch)
        kept == SelectSeq(d.stateNotes, LAMBDA s : NotFoundIn(d.changesNotes, s))
    IN serializeAutoSequence(kept \o d.changesNotes, eventsAdded)

\* mutant: the changed record is added and the record of the state is kept
mergeAutoEventsChangedKeepsOld(st, ch) ==
    LET d == deserializeAutoTrackChanges(st, ch)
        found == SelectSeq(d.changesNotes, LAMBDA c : FoundById(d.stateNotes, c))
    IN serializeAutoSequence(d.stateNotes \o found, eventsAdded)

mergeAutoEventsChanged(st, ch) ==
    LET d == deserializeAutoTrackChanges(st, ch)
        init == [i \in 1..Len(d.stateNotes) |-> [side |-> "state", idx |-> i]]
        ptrs == ChangedLoop(init, 1, d.stateNotes, d.changesNotes)
        result == [k \in 1..Len(ptrs) |->
                     IF ptrs[k].side = "state" THEN d.stateNotes[ptrs[k].idx]
                     ELSE d.changesNotes[ptrs[k].idx]]
    IN serializeAutoSequence(result, eventsAdded)

---------------------------------------------------------------------------
(* Diff *)

\* mutant: the curvature is not compared
eventHasChangedNoCurvature(stateEvent, changesEvent) ==
    \/ stateEvent.beat # changesEvent.beat
    \/ stateEvent.controllerValue # changesEvent.controllerValue

eventHasChanged(stateEvent, changesEvent) ==
    \/ stateEvent.beat # changesEvent.beat
    \/ stateEvent.curvature # changesEvent.curvature
    \/ stateEvent.controllerValue # changesEvent.controllerValue

\* first loop of createAutoEventsDiffs, the changed group: for each state event
\* (in order) the first changes event of the same id, when a field differs
RECURSIVE ChangedEvents(_, _, _)
ChangedEvents(i, stateEvents, changesEvents) ==
    IF i > Len(stateEvents) THEN <<>>
    ELSE LET rest == ChangedEvents(i + 1, stateEvents, changesEvents)
         IN IF FoundById(changesEvents, stateEvents[i])
            THEN LET c == changesEvents[FirstMatch(changesEvents, stateEvents[i])]
                 IN IF eventHasChanged(stateEvents[i], c) THEN <<c>> \o rest ELSE rest
            ELSE rest

RemovedEvents(stateEvents, changesEvents) ==
    SelectSeq(stateEvents, LAMBDA s : NotFoundIn(changesEvents, s))

AddedEvents(stateEvents, changesEvents) ==
    SelectSeq(changesEvents, LAMBDA c : NotFoundIn(stateEvents, c))

createAutoEventsDiffs(st, ch) ==
    LET d == deserializeAutoTrackChanges(st, ch)
        addedEvents == AddedEvents(d.stateNotes, d.changesNotes)
        removedEvents == RemovedEvents(d.stateNotes, d.changesNotes)
        changedEvents == ChangedEvents(1, d.stateNotes, d.changesNotes)
    IN (IF Len(addedEvents) > 0
        THEN <<serializeAutoTrackChanges(addedEvents, "added {x} events",
                                         Len(addedEvents), eventsAdded)>>
        ELSE <<>>)
       \o
       (IF Len(removedEvents) > 0
        THEN <<serializeAutoTrackChanges(removedEvents, "removed {x} events",
                                         Len(removedEvents), eventsRemoved)>>
        ELSE <<>>)
       \o
       (IF Len(changedEvents) > 0
        THEN <<serializeAutoTrackChanges(changedEvents, "changed {x} events",
                                         Len(changedEvents), eventsChanged)>>
        ELSE <<>>)

\* mutant: the controller diff carries the payload of the state
createAutoTrackControllerDiffOfState(st, ch) ==
    [delta |-> Delta(DeltaDescription("controller changed"), trackController),
     deltaData |-> createCopy(st)]

createAutoTrackControllerDiff(st, ch) ==
    [delta |-> Delta(DeltaDescription("controller changed"), trackController),
     deltaData |-> createCopy(ch)]

checkIfDeltaIsEventsType(d) ==
    \/ hasType(d, eventsAdded)
    \/ hasType(d, eventsChanged)
    \/ hasType(d, eventsRemoved)

---------------------------------------------------------------------------
(* Functions shared by all track kinds (PianoTrackDiffLogic.cpp and        *)
(* PatternDiffHelpers.cpp): scalar merges are last-write-wins, scalar      *)
(* diffs carry a copy of the changes, clips are id-keyed like events.      *)

mergePath(st, ch) == createCopy(ch)

mergeColour(st, ch) == createCopy(ch)

mergeInstrument(st, ch) == createCopy(ch)

mergeTimeSignature(st, ch) == createCopy(ch)

createPathDiff(st, ch) ==
    [delta |-> Delta(DeltaDescription("path changed"), trackPath),
     deltaData |-> createCopy(ch)]

createColourDiff(st, ch) ==
    [delta |-> Delta(DeltaDescription("colour changed"), trackColour),
     deltaData |-> createCopy(ch)]

createInstrumentDiff(st, ch) ==
    [delta |-> Delta(DeltaDescription("instrument changed"), trackInstrument),
     deltaData |-> createCopy(ch)]

createTimeSignatureDiff(st, ch) ==
    [delta |-> Delta(DeltaDescription("time signatures changed"), timeSignaturesChanged),
     deltaData |-> createCopy(ch)]

checkIfDeltaIsPatternType(d) ==
    \/ hasType(d, clipsAdded)
    \/ hasType(d, clipsChanged)
    \/ hasType(d, clipsRemoved)

Retag(data, tag) == [data EXCEPT !.tag = tag]

mergeClipsAdded(st, ch) == Retag(mergeAutoEventsAdded(st, ch), clipsAdded)

mergeClipsRemoved(st, ch) == Retag(mergeAutoEventsRemoved(st, ch), clipsAdded)

mergeClipsChanged(st, ch) == Retag(mergeAutoEventsChanged(st, ch), clipsAdded)

ClipsTypeOf(type) ==
    IF type = eventsAdded THEN clipsAdded
    ELSE IF type = eventsRemoved THEN clipsRemoved
    ELSE clipsChanged

createClipsDiffs(st, ch) ==
    LET ds == createAutoEventsDiffs(st, ch)
    IN [k \in 1..Len(ds) |->
          [delta |-> Delta(ds[k].delta.description, ClipsTypeOf(ds[k].delta.type)),
           deltaData |-> Retag(ds[k].deltaData, ClipsTypeOf(ds[k].delta.type))]]

\* TrackedItem::deltaHasDefaultData: the payload is the empty tree of its type
deltaHasDefaultData(item) == item.data = EmptyTree(item.delta.type)

---------------------------------------------------------------------------
(* createDiff *)

\* lines 84-95: the first delta of initialState of the type of myDelta
StateMatches(initialState, myDelta) ==
    {j \in 1..Len(initialState) : initialState[j].delta.type = myDelta.type}

FirstStateMatch(initialState, myDelta) ==
    CHOOSE j \in StateMatches(initialState, myDelta) :
        \A k \in StateMatches(initialState, myDelta) : j <= k

\* lines 99-126: the DeltaDiffs the type's diff function gives
DiffDispatch(myDelta, stateDeltaData, myDeltaData) ==
    IF hasType(myDelta, trackPath)
    THEN <<createPathDiff(stateDeltaData, myDeltaData)>>
    ELSE IF hasType(myDelta, trackColour)
    THEN <<createColourDiff(stateDeltaData, myDeltaData)>>
    ELSE IF hasType(myDelta, trackInstrument)
    THEN <<createInstrumentDiff(stateDeltaData, myDeltaData)>>
    ELSE IF hasType(myDelta, timeSignaturesChanged)
    THEN <<createTimeSignatureDiff(stateDeltaData, myDeltaData)>>
    ELSE IF hasType(myDelta, trackController)
    THEN <<createAutoTrackControllerDiff(stateDeltaData, myDeltaData)>>
    ELSE IF hasType(myDelta, eventsAdded)
    THEN createAutoEventsDiffs(stateDeltaData, myDeltaData)
    ELSE IF hasType(myDelta, clipsAdded)
    THEN createClipsDiffs(stateDeltaData, myDeltaData)
    ELSE <<>>

\* mutant: a delta found in the state gives no diff, also when its data changed
DiffOfDeltaOnlyNew(initialState, item) ==
    LET deltaFoundInState == StateMatches(initialState, item.delta) # {}
    IN IF ~deltaFoundInState /\ ~deltaHasDefaultData(item)
       THEN DiffDispatch(item.delta, Invalid, item.data)
       ELSE <<>>

\* lines 75-127: one turn of the loop over the target's deltas
DiffOfDelta(initialState, item) ==
    LET myDelta == item.delta
        myDeltaData == item.data
        deltaFoundInState == StateMatches(initialState, myDelta) # {}
        stateDeltaData == IF deltaFoundInState
                          THEN initialState[FirstStateMatch(initialState, myDelta)].data
                          ELSE Invalid
        dataHasChanged == deltaFoundInState /\ ~isEquivalentTo(myDeltaData, stateDeltaData)
    IN IF (~deltaFoundInState /\ ~deltaHasDefaultData(item)) \/ dataHasChanged
       THEN DiffDispatch(myDelta, stateDeltaData, myDeltaData)
       ELSE <<>>

RECURSIVE DiffLoop(_, _, _, _)
DiffLoop(deltas, initialState, targetItems, i) ==
    IF i > Len(targetItems) THEN deltas
    ELSE DiffLoop(applyDeltas(deltas, DiffOfDelta(initialState, targetItems[i])),
                  initialState, targetItems, i + 1)

createDiff(initialState, targetItems) == DiffLoop(<<>>, initialState, targetItems, 1)

---------------------------------------------------------------------------
(* createMergedItem *)

ScalarTypes == {trackPath, trackColour, trackInstrument, trackController,
                timeSignaturesChanged}

\* lines 176-205: the merge function of a scalar type
MergeScalar(type, stateDeltaData, targetDeltaData) ==
    IF type = trackPath THEN mergePath(stateDeltaData, targetDeltaData)
    ELSE IF type = trackColour THEN mergeColour(stateDeltaData, targetDeltaData)
    ELSE IF type = trackInstrument THEN mergeInstrument(stateDeltaData, targetDeltaData)
    ELSE IF type = trackController THEN mergeController(stateDeltaData, targetDeltaData)
    ELSE mergeTimeSignature(stateDeltaData, targetDeltaData)

\* mutant: each events delta of the target is merged into the state payload, not
\* into the payload merged so far
MergeEventsStepNotIncremental(eventsDeltaData, stateDeltaData, targetDelta, targetDeltaData) ==
    IF hasType(targetDelta, eventsAdded)
    THEN mergeAutoEventsAdded(stateDeltaData, targetDeltaData)
    ELSE IF hasType(targetDelta, eventsRemoved)
    THEN mergeAutoEventsRemoved(stateDeltaData, targetDeltaData)
    ELSE IF hasType(targetDelta, eventsChanged)
    THEN mergeAutoEventsChanged(stateDeltaData, targetDeltaData)
    ELSE eventsDeltaData

\* lines 215-228
MergeEventsStep(eventsDeltaData, stateDeltaData, targetDelta, targetDeltaData) ==
    LET incrementalMerge == isValid(eventsDeltaData)
        base == IF incrementalMerge THEN eventsDeltaData ELSE stateDeltaData
    IN IF hasType(targetDelta, eventsAdded)
       THEN mergeAutoEventsAdded(base, targetDeltaData)
       ELSE IF hasType(targetDelta, eventsRemoved)
       THEN mergeAutoEventsRemoved(base, targetDeltaData)
       ELSE IF hasType(targetDelta, eventsChanged)
       THEN mergeAutoEventsChanged(base, targetDeltaData)
       ELSE eventsDeltaData

\* lines 238-251 and 332-348
MergeClipsStep(clipsDeltaData, stateDeltaData, targetDelta, targetDeltaData) ==
    LET incrementalMerge == isValid(clipsDeltaData)
        base == IF incrementalMerge THEN clipsDeltaData ELSE stateDeltaData
    IN IF hasType(targetDelta, clipsAdded)
       THEN mergeClipsAdded(base, targetDeltaData)
       ELSE IF hasType(targetDelta, clipsRemoved)
       THEN mergeClipsRemoved(base, targetDeltaData)
       ELSE IF hasType(targetDelta, clipsChanged)
       THEN mergeClipsChanged(base, targetDeltaData)
       ELSE clipsDeltaData

\* lines 166-252: one turn of the inner loop; acc holds the locals
\* deltaFoundInChanges, eventsDeltaData, clipsDeltaData and the deltas applied
InnerStep(acc, stateItem, targetItem) ==
    LET stateDelta == stateItem.delta
        stateDeltaData == stateItem.data
        targetDelta == targetItem.delta
        targetDeltaData == targetItem.data
        typesMatchStrictly == stateDelta.type = targetDelta.type
        bothDeltasAreNotesType ==
            checkIfDeltaIsEventsType(stateDelta) /\ checkIfDeltaIsEventsType(targetDelta)
        bothDeltasArePatternType ==
            checkIfDeltaIsPatternType(stateDelta) /\ checkIfDeltaIsPatternType(targetDelta)
    IN [found |-> acc.found \/ typesMatchStrictly \/ bothDeltasAreNotesType
                    \/ bothDeltasArePatternType,
        deltas |-> IF typesMatchStrictly /\ targetDelta.type \in ScalarTypes
                   THEN applyDelta(acc.deltas,
                                   Delta(targetDelta.description, targetDelta.type),
                                   MergeScalar(targetDelta.type, stateDeltaData,
                                               targetDeltaData))
                   ELSE acc.deltas,
        eventsDeltaData |-> IF bothDeltasAreNotesType
                            THEN MergeEventsStep(acc.eventsDeltaData, stateDeltaData,
                                                 targetDelta, targetDeltaData)
                            ELSE acc.eventsDeltaData,
        clipsDeltaData |-> IF bothDeltasArePatternType
                           THEN MergeClipsStep(acc.clipsDeltaData, stateDeltaData,
                                               targetDelta, targetDeltaData)
                           ELSE acc.clipsDeltaData]

RECURSIVE InnerLoop(_, _, _, _)
InnerLoop(acc, stateItem, targetItems, j) ==
    IF j > Len(targetItems) THEN acc
    ELSE InnerLoop(InnerStep(acc, stateItem, targetItems[j]), stateItem, targetItems, j + 1)

\* lines 255-258: the consolidated events delta, if a merge gave one
ApplyEventsDelta(acc) ==
    IF isValid(acc.eventsDeltaData)
    THEN applyDelta(acc.deltas, Delta(DeltaDescription(headStateDelta), eventsAdded),
                    acc.eventsDeltaData)
    ELSE acc.deltas

\* lines 260-263: the consolidated clips delta, if a merge gave one
ApplyClipsDelta(acc, deltas) ==
    IF isValid(acc.clipsDeltaData)
    THEN applyDelta(deltas, Delta(DeltaDescription(headStateDelta), clipsAdded),
                    acc.clipsDeltaData)
    ELSE deltas

\* lines 265-268: a state delta found nowhere in the target is copied
CopyForward(acc, deltas, stateItem) ==
    IF ~acc.found
    THEN applyDelta(deltas, stateItem.delta, createCopy(stateItem.data))
    ELSE deltas

\* mutant: a state delta with no match in the target is not copied
AfterInnerLoopNoCopy(acc, stateItem) ==
    ApplyClipsDelta(acc, ApplyEventsDelta(acc))

\* lines 255-268: what the outer loop does with the locals the inner loop left
AfterInnerLoop(acc, stateItem) ==
    CopyForward(acc, ApplyClipsDelta(acc, ApplyEventsDelta(acc)), stateItem)

\* the locals of one turn of the outer loop, as lines 147-162 declare them
InnerInit(deltas) ==
    [found |-> FALSE, deltas |-> deltas,
     eventsDeltaData |-> Invalid, clipsDeltaData |-> Invalid]

\* lines 144-268: one turn of the outer loop, which adds to the Diff
MergeOfDelta(deltas, stateItem, targetItems) ==
    AfterInnerLoop(InnerLoop(InnerInit(deltas), stateItem, targetItems, 1), stateItem)

RECURSIVE MergeLoop(_, _, _, _)
MergeLoop(deltas, initialState, targetItems, i) ==
    IF i > Len(initialState) THEN deltas
    ELSE MergeLoop(MergeOfDelta(deltas, initialState[i], targetItems),
                   initialState, targetItems, i + 1)

\* lines 296-305: the last time-signature delta of the target, merged
RECURSIVE TimeSignatureLoop(_, _, _, _)
TimeSignatureLoop(mergedData, empty, targetItems, j) ==
    IF j > Len(targetItems) THEN mergedData
    ELSE TimeSignatureLoop(
            IF hasType(targetItems[j].delta, timeSignaturesChanged)
            THEN mergeTimeSignature(empty, targetItems[j].data)
            ELSE mergedData,
            empty, targetItems, j + 1)

\* mutant: the time-signature delta synthesized is always the empty one
MissingTimeSignatureAlwaysEmpty(deltas, initialState, targetItems) ==
    IF \E i \in 1..Len(initialState) : hasType(initialState[i].delta, timeSignaturesChanged)
    THEN deltas
    ELSE applyDelta(deltas, Delta(DeltaDescription(headStateDelta), timeSignaturesChanged),
                    EmptyTree(timeSignaturesChanged))

\* lines 288-315
MissingTimeSignature(deltas, initialState, targetItems) ==
    LET stateHasTrackTimeSignature ==
            \E i \in 1..Len(initialState) :
                hasType(initialState[i].delta, timeSignaturesChanged)
        emptyTimeSignatureDeltaData == EmptyTree(timeSignaturesChanged)
        timeSignatureDelta == Delta(DeltaDescription(headStateDelta), timeSignaturesChanged)
        mergedTimeSignatureDeltaData ==
            TimeSignatureLoop(Invalid, emptyTimeSignatureDeltaData, targetItems, 1)
    IN IF stateHasTrackTimeSignature THEN deltas
       ELSE IF isValid(mergedTimeSignatureDeltaData)
       THEN applyDelta(deltas, timeSignatureDelta, mergedTimeSignatureDeltaData)
       ELSE applyDelta(deltas, timeSignatureDelta, emptyTimeSignatureDeltaData)

\* lines 325-350
RECURSIVE ClipsLoop(_, _, _, _)
ClipsLoop(mergedData, empty, targetItems, j) ==
    IF j > Len(targetItems) THEN mergedData
    ELSE ClipsLoop(
            IF checkIfDeltaIsPatternType(targetItems[j].delta)
            THEN MergeClipsStep(mergedData, empty, targetItems[j].delta, targetItems[j].data)
            ELSE mergedData,
            empty, targetItems, j + 1)

\* mutant: no clips delta is synthesized when the target has none to merge
MissingClipsOnlyMerged(deltas, initialState, targetItems) ==
    LET mergedClipsDeltaData == ClipsLoop(Invalid, EmptyTree(clipsAdded), targetItems, 1)
    IN IF (\E i \in 1..Len(initialState) : checkIfDeltaIsPatternType(initialState[i].delta))
          \/ ~isValid(mergedClipsDeltaData)
       THEN deltas
       ELSE applyDelta(deltas, Delta(DeltaDescription(headStateDelta), clipsAdded),
                       mergedClipsDeltaData)

\* lines 317-360
MissingClips(deltas, initialState, targetItems) ==
    LET stateHasClips ==
            \E i \in 1..Len(initialState) : checkIfDeltaIsPatternType(initialState[i].delta)
        emptyClipsDeltaData == EmptyTree(clipsAdded)
        clipsDelta == Delta(DeltaDescription(headStateDelta), clipsAdded)
        mergedClipsDeltaData == ClipsLoop(Invalid, emptyClipsDeltaData, targetItems, 1)
    IN IF stateHasClips THEN deltas
       ELSE IF isValid(mergedClipsDeltaData)
       THEN applyDelta(deltas, clipsDelta, mergedClipsDeltaData)
       ELSE applyDelta(deltas, clipsDelta, emptyClipsDeltaData)

\* mutant: the deltas of the target whose type the state does not have are
\* added to the Diff after the main pass
createMergedItemWithTargetOnly(initialState, targetItems) ==
    MissingClips(
        MissingTimeSignature(
            MergeLoop(<<>>, initialState, targetItems, 1)
                \o SelectSeq(targetItems,
                             LAMBDA t : \A i \in 1..Len(initialState) :
                                            initialState[i].delta.type # t.delta.type),
            initialState, targetItems),
        initialState, targetItems)

createMergedItem(initialState, targetItems) ==
    LET step1 == MergeLoop(<<>>, initialState, targetItems, 1)
        step2 == MissingTimeSignature(step1, initialState, targetItems)
    IN MissingClips(step2, initialState, targetItems)

---------------------------------------------------------------------------
(* Events level: the merge and diff functions applied to drawn payloads *)

Fields == [beat : FieldValues, curvature : FieldValues, controllerValue : FieldValues]

Event(id, f) ==
    [id |-> id, beat |-> f.beat, curvature |-> f.curvature,
     controllerValue |-> f.controllerValue]

RECURSIVE SetToSortedSeq(_)
SetToSortedSeq(S) ==
    IF S = {} THEN <<>>
    ELSE LET e == CHOOSE x \in S : TRUE
         IN AddSorted(SetToSortedSeq(S \ {e}), e)

\* the event sequences a track can hold: unique ids, sorted as serialized
EventSeqs(ids, fields) ==
    UNION {{SetToSortedSeq({Event(i, f[i]) : i \in I}) : f \in [I -> fields]}
           : I \in SUBSET ids}

EventPayloads(ids, fields) ==
    {serializeAutoSequence(q, eventsAdded) : q \in EventSeqs(ids, fields)}

StatePayloads == EventPayloads(StateIds, Fields)

ChangesPayloads == EventPayloads(ChangesIds, Fields)

EvInit ==
    /\ evState \in StatePayloads \cup {Invalid}
    /\ evChanges \in ChangesPayloads \cup {Invalid}
    /\ evResult = Invalid
    /\ evDiffs = <<>>
    /\ evOp = "none"
    /\ state = <<>>
    /\ target = <<>>
    /\ diff = <<>>
    /\ merged = <<>>
    /\ pc = "events"

MergeAdded ==
    /\ evOp = "none"
    /\ evResult' = mergeAutoEventsAdded(evState, evChanges)
    /\ evOp' = "mergeAutoEventsAdded"
    /\ UNCHANGED <<evState, evChanges, evDiffs, itemVars>>

MergeRemoved ==
    /\ evOp = "none"
    /\ evResult' = mergeAutoEventsRemoved(evState, evChanges)
    /\ evOp' = "mergeAutoEventsRemoved"
    /\ UNCHANGED <<evState, evChanges, evDiffs, itemVars>>

MergeChanged ==
    /\ evOp = "none"
    /\ evResult' = mergeAutoEventsChanged(evState, evChanges)
    /\ evOp' = "mergeAutoEventsChanged"
    /\ UNCHANGED <<evState, evChanges, evDiffs, itemVars>>

CreateEventsDiffs ==
    /\ evOp = "none"
    /\ evDiffs' = createAutoEventsDiffs(evState, evChanges)
    /\ evOp' = "createAutoEventsDiffs"
    /\ UNCHANGED <<evState, evChanges, evResult, itemVars>>

EvNext ==
    \/ MergeAdded
    \/ MergeRemoved
    \/ MergeChanged
    \/ CreateEventsDiffs

SpecEvents == EvInit /\ [][EvNext]_vars

---------------------------------------------------------------------------
(* Events level, folded: createMergedItem merges the events deltas of the  *)
(* target one after another into eventsDeltaData (lines 215-228)           *)

BeatFields == {f \in Fields : f.curvature = 0 /\ f.controllerValue = 0}

FoldStatePayloads == EventPayloads(StateIds, BeatFields)

FoldChangesPayloads == EventPayloads(ChangesIds, BeatFields)

FoldInit ==
    /\ evState \in FoldStatePayloads
    /\ evChanges \in FoldChangesPayloads
    /\ evResult = Invalid
    /\ evDiffs = <<>>
    /\ evOp = "none"
    /\ state = <<>>
    /\ target = <<>>
    /\ diff = <<>>
    /\ merged = <<>>
    /\ pc = "fold"

\* the payload merged so far is the state of the merge with the next events
\* delta of the target
IncrementalMerge ==
    /\ evOp \in {"mergeAutoEventsAdded", "mergeAutoEventsRemoved", "mergeAutoEventsChanged"}
    /\ evState' = evResult
    /\ evChanges' \in FoldChangesPayloads
    /\ evResult' = Invalid
    /\ evOp' = "none"
    /\ UNCHANGED <<evDiffs, itemVars>>

FoldNext ==
    \/ MergeAdded
    \/ MergeRemoved
    \/ MergeChanged
    \/ IncrementalMerge

SpecFold == FoldInit /\ [][FoldNext]_vars

---------------------------------------------------------------------------
(* Item level: createDiff and createMergedItem applied to drawn snapshots *)

StateDescription == DeltaDescription("state delta")

TargetDescription == DeltaDescription("target delta")

EventsTypes == {eventsAdded, eventsRemoved, eventsChanged}

ClipsTypes == {clipsAdded, clipsRemoved, clipsChanged}

\* the order in which the deltas of the state snapshot are listed
TypeOrder == <<trackPath, trackColour, trackInstrument, trackController,
               timeSignaturesChanged, notesAdded, eventsAdded, eventsRemoved,
               eventsChanged, clipsAdded, clipsRemoved, clipsChanged>>

DeltaTypes == Range(TypeOrder)

TypeIndex(type) == CHOOSE k \in 1..Len(TypeOrder) : TypeOrder[k] = type

Ev(id, beat) == [id |-> id, beat |-> beat, curvature |-> 0, controllerValue |-> 0]

\* the record sequences of the events deltas of a drawn snapshot
ItemEventSeqs == {<<>>, <<Ev(1, 0)>>, <<Ev(1, 1)>>, <<Ev(2, 0)>>}

\* the record sequences of the clips deltas of a drawn snapshot
ItemClipSeqs == {<<>>, <<Ev(1, 0)>>}

PayloadsOf(type) ==
    IF type \in EventsTypes THEN {serializeAutoSequence(q, type) : q \in ItemEventSeqs}
    ELSE IF type \in ClipsTypes THEN {serializeAutoSequence(q, type) : q \in ItemClipSeqs}
    ELSE IF type = notesAdded THEN {EmptyTree(type)}
    ELSE {ScalarTree(type, v) : v \in 0..MaxScalar}

ItemsOf(description) ==
    UNION {{[delta |-> Delta(description, type), data |-> d] : d \in PayloadsOf(type)}
           : type \in DeltaTypes}

OneDeltaPerType(items) ==
    \A i, j \in 1..Len(items) : items[i].delta.type = items[j].delta.type => i = j

InTypeOrder(items) ==
    \A i, j \in 1..Len(items) :
        i < j => TypeIndex(items[i].delta.type) < TypeIndex(items[j].delta.type)

SnapshotsOf(description) ==
    {q \in UNION {[1..n -> ItemsOf(description)] : n \in 0..MaxDeltas} : OneDeltaPerType(q)}

StateSnapshots == {q \in SnapshotsOf(StateDescription) : InTypeOrder(q)}

TargetSnapshots == SnapshotsOf(TargetDescription)

Init ==
    /\ state \in StateSnapshots
    /\ target \in TargetSnapshots
    /\ diff = <<>>
    /\ merged = <<>>
    /\ pc = "start"
    /\ evState = Invalid
    /\ evChanges = Invalid
    /\ evResult = Invalid
    /\ evDiffs = <<>>
    /\ evOp = "none"

\* createDiff(initialState) of the DiffLogic of target
CreateDiff ==
    /\ pc = "start"
    /\ diff' = createDiff(state, target)
    /\ pc' = "createDiff"
    /\ UNCHANGED <<state, target, merged, evVars>>

\* createMergedItem(initialState) of the DiffLogic of target
CreateMergedItem ==
    /\ pc = "start"
    /\ merged' = createMergedItem(state, target)
    /\ pc' = "createMergedItem"
    /\ UNCHANGED <<state, target, diff, evVars>>

\* the deltas of the Diff of createDiff become a revision item, which is merged
\* back onto the state
MergeDiff ==
    /\ pc = "createDiff"
    /\ merged' = createMergedItem(state, diff)
    /\ pc' = "mergeDiff"
    /\ UNCHANGED <<state, target, diff, evVars>>

Next ==
    \/ CreateDiff
    \/ CreateMergedItem
    \/ MergeDiff

Spec == Init /\ [][Next]_vars

---------------------------------------------------------------------------
(* Properties of the events level *)

\* the records of a payload, an invalid payload holding none
Records(data) == IF data.valid THEN Range(data.children) ELSE {}

RecordIds(data) == {e.id : e \in Records(data)}

FieldsDiffer(a, b) ==
    \/ a.beat # b.beat
    \/ a.curvature # b.curvature
    \/ a.controllerValue # b.controllerValue

ExpectedRemoved == {e \in Records(evState) : e.id \notin RecordIds(evChanges)}

ExpectedChanged ==
    {c \in Records(evChanges) :
        \E e \in Records(evState) : e.id = c.id /\ FieldsDiffer(e, c)}

ExpectedAdded == {c \in Records(evChanges) : c.id \notin RecordIds(evState)}

DiffsOfType(type) == {k \in 1..Len(evDiffs) : evDiffs[k].delta.type = type}

\* an empty group has no DeltaDiff; a group with records has exactly one, which
\* holds each record of the group once and counts them in its description
GroupEmitted(type, text, group) ==
    IF group = {} THEN DiffsOfType(type) = {}
    ELSE \E k \in 1..Len(evDiffs) :
            /\ DiffsOfType(type) = {k}
            /\ evDiffs[k].deltaData.valid
            /\ evDiffs[k].deltaData.tag = type
            /\ Range(evDiffs[k].deltaData.children) = group
            /\ Len(evDiffs[k].deltaData.children) = Cardinality(group)
            /\ evDiffs[k].delta.description = <<text, Cardinality(group)>>

\* C5: collection diff completeness. For state and changes sequences with unique
\* ids, createAutoEventsDiffs emits removed = the state records whose id is not in
\* changes, changed = the changes records whose id is in state with a different
\* beat, curvature or controller value, added = the changes records whose id is
\* not in state; one DeltaDiff per non-empty group, none for an empty group, each
\* with a change count equal to the size of its group.
C5_DiffCompleteness ==
    evOp = "createAutoEventsDiffs" =>
        /\ GroupEmitted(eventsAdded, "added {x} events", ExpectedAdded)
        /\ GroupEmitted(eventsRemoved, "removed {x} events", ExpectedRemoved)
        /\ GroupEmitted(eventsChanged, "changed {x} events", ExpectedChanged)
        /\ \A k \in 1..Len(evDiffs) : evDiffs[k].delta.type \in EventsTypes

\* C5 witness: a diff with a removed, a changed and an added record, and a record
\* of equal id and equal fields that is in no group
C5_Witness ==
    /\ evOp = "createAutoEventsDiffs"
    /\ ExpectedAdded # {}
    /\ ExpectedRemoved # {}
    /\ ExpectedChanged # {}
    /\ Len(evDiffs) = 3

C5_WitnessUnchanged ==
    /\ evOp = "createAutoEventsDiffs"
    /\ Records(evState) \cap Records(evChanges) # {}
    /\ ExpectedAdded # {}
    /\ Len(evDiffs) = 1

MergeOps == {"mergeAutoEventsAdded", "mergeAutoEventsRemoved", "mergeAutoEventsChanged"}

\* C9: identity uniqueness preserved. With ids unique within state and within
\* changes, the payload each of the three merges returns holds no two records of
\* the same id, also when the state is the payload merged so far.
C9_UniqueIds ==
    /\ UniqueIds(evState.children)
    /\ UniqueIds(evChanges.children)
    /\ evOp \in MergeOps => evResult.valid /\ UniqueIds(evResult.children)

\* C9 witness: a changed-merge onto a payload that earlier merges built (it holds
\* an id only the changes side has), which shares an id with the changes
C9_Witness ==
    /\ evOp = "mergeAutoEventsChanged"
    /\ (MaxId + 1) \in RecordIds(evState)
    /\ RecordIds(evState) \cap RecordIds(evChanges) # {}
    /\ Len(evResult.children) >= 2

\* C10 as stated: merging the same changes once more into the result of an
\* added-merge returns the same payload
C10_IdempotentSamePayload ==
    evOp = "mergeAutoEventsAdded" =>
        mergeAutoEventsAdded(evResult, evChanges) = evResult

\* C10: idempotence of added-merge up to the order of the records. Merging the
\* same changes once more into the result of an added-merge returns the same
\* records, each once; their order in the payload may differ, because the merge
\* sorts its state by beat and appends the added records after it.
C10_IdempotentSameRecords ==
    evOp = "mergeAutoEventsAdded" =>
        LET again == mergeAutoEventsAdded(evResult, evChanges)
        IN /\ again.valid
           /\ again.tag = evResult.tag
           /\ Range(again.children) = Range(evResult.children)
           /\ Len(again.children) = Len(evResult.children)

\* C10 witness: an added-merge that added a record before which the state holds a
\* later one, so that the payload is not in beat order
C10_Witness ==
    /\ evOp = "mergeAutoEventsAdded"
    /\ Len(evResult.children) > Len(DeserializeNotes(evState))
    /\ mergeAutoEventsAdded(evResult, evChanges) # evResult

---------------------------------------------------------------------------
(* Properties of the item level *)

TypesOf(items) == {items[k].delta.type : k \in 1..Len(items)}

DeltasOfType(items, type) == {k \in 1..Len(items) : items[k].delta.type = type}

SameFamily(a, b) ==
    \/ a \in EventsTypes /\ b \in EventsTypes
    \/ a \in ClipsTypes /\ b \in ClipsTypes

\* the target holds no delta of the type of the state delta, nor of its family
NoMatchInTarget(i) ==
    \A j \in 1..Len(target) :
        /\ target[j].delta.type # state[i].delta.type
        /\ ~SameFamily(state[i].delta.type, target[j].delta.type)

CopiedForward(i) == \E k \in 1..Len(merged) : merged[k] = state[i]

\* C1 as stated: a delta of state whose type does not occur among the deltas of
\* target is in the output with the same type, description and payload
C1_CopyForwardByType ==
    pc = "createMergedItem" =>
        \A i \in 1..Len(state) :
            state[i].delta.type \notin TypesOf(target) => CopiedForward(i)

\* C1: copy-forward. A delta of state is in the output of createMergedItem with
\* the same type, description and payload when target holds no delta of its type
\* and, for an events or clips delta, no delta of its family either.
C1_CopyForward ==
    pc = "createMergedItem" =>
        \A i \in 1..Len(state) : NoMatchInTarget(i) => CopiedForward(i)

\* C1 witness: an events delta and a scalar delta of state copied forward past a
\* target that holds other deltas
C1_Witness ==
    /\ pc = "createMergedItem"
    /\ Len(state) = 2
    /\ Len(target) = 2
    /\ \A i \in 1..Len(state) : NoMatchInTarget(i)
    /\ \E i \in 1..Len(state) : state[i].delta.type \in EventsTypes
    /\ \E i \in 1..Len(state) : state[i].delta.type \in ScalarTypes
    /\ \A i \in 1..Len(state) : CopiedForward(i)

\* the types createDiff has a branch for
SnapshotTypes == {trackPath, trackColour, trackInstrument, timeSignaturesChanged,
                  trackController, eventsAdded, clipsAdded}

\* the same scalar content, or the same set of id-keyed records
PayloadEquivalent(a, b) ==
    /\ a.valid = b.valid
    /\ a.tag = b.tag
    /\ a.value = b.value
    /\ Range(a.children) = Range(b.children)

SnapshotEquivalent(a, b) ==
    /\ TypesOf(a) = TypesOf(b)
    /\ \A k \in 1..Len(a) : \A j \in 1..Len(b) :
          a[k].delta.type = b[j].delta.type => PayloadEquivalent(a[k].data, b[j].data)

\* C2 as stated: for changes that hold every delta type of state (a superset or
\* modification of it), merging the deltas of createDiff(state, changes) onto
\* state gives a snapshot equivalent to changes
C2_RoundTripSuperset ==
    (pc = "mergeDiff" /\ TypesOf(state) \subseteq TypesOf(target)) =>
        SnapshotEquivalent(merged, target)

RoundTripDomain ==
    /\ TypesOf(target) \subseteq SnapshotTypes
    /\ TypesOf(state) \subseteq TypesOf(target)
    /\ (TypesOf(target) \ TypesOf(state)) \subseteq {timeSignaturesChanged, clipsAdded}

\* C2: round trip. When changes holds the delta types of state, all of them
\* types createDiff has a branch for, and adds at most a time-signature and a
\* clipsAdded delta, merging the deltas of createDiff(state, changes) onto state
\* gives, for each delta of changes, exactly one delta of its type with an
\* equivalent payload; any other delta of the output is an empty time-signature
\* or clipsAdded delta.
C2_RoundTrip ==
    (pc = "mergeDiff" /\ RoundTripDomain) =>
        /\ \A j \in 1..Len(target) :
              \E k \in 1..Len(merged) :
                  /\ DeltasOfType(merged, target[j].delta.type) = {k}
                  /\ PayloadEquivalent(merged[k].data, target[j].data)
        /\ \A k \in 1..Len(merged) :
              \/ merged[k].delta.type \in TypesOf(target)
              \/ /\ merged[k].delta.type \in {timeSignaturesChanged, clipsAdded}
                 /\ merged[k].data = EmptyTree(merged[k].delta.type)

\* C2 witness: a round trip over a changed scalar and changed events, whose diff
\* removes a record and adds another
C2_Witness ==
    /\ pc = "mergeDiff"
    /\ RoundTripDomain
    /\ Len(state) = 2
    /\ Len(diff) = 3
    /\ \E j \in 1..Len(target) :
          /\ target[j].delta.type = eventsAdded
          /\ target[j].data.children # <<>>
    /\ eventsRemoved \in TypesOf(diff)

C2_WitnessChanged ==
    /\ pc = "mergeDiff"
    /\ RoundTripDomain
    /\ eventsChanged \in TypesOf(diff)
    /\ timeSignaturesChanged \in TypesOf(diff)
    /\ timeSignaturesChanged \notin TypesOf(state)

RepresentedInMerge(i) ==
    \E k \in 1..Len(merged) :
        \/ merged[k].delta.type = state[i].delta.type
        \/ state[i].delta.type \in EventsTypes /\ merged[k].delta.type = eventsAdded
        \/ state[i].delta.type \in ClipsTypes /\ merged[k].delta.type = clipsAdded

\* C3: every delta of state is represented in the output of createMergedItem, by
\* a delta of its type or, for an events or clips delta, by the consolidated
\* delta of its family, whether or not target holds a delta of that type.
C3_EveryStateDeltaRepresented ==
    pc = "createMergedItem" => \A i \in 1..Len(state) : RepresentedInMerge(i)

\* C4: scalar last-write-wins. When state and target both hold a delta of one
\* scalar type, the output of createMergedItem holds a delta of that type, with
\* the payload and the description of the delta of target.
C4_ScalarLastWriteWins ==
    pc = "createMergedItem" =>
        \A i \in 1..Len(state) : \A j \in 1..Len(target) :
            (state[i].delta.type = target[j].delta.type
             /\ state[i].delta.type \in ScalarTypes) =>
                /\ DeltasOfType(merged, target[j].delta.type) # {}
                /\ \A k \in DeltasOfType(merged, target[j].delta.type) :
                      /\ merged[k].data = target[j].data
                      /\ merged[k].delta.description = target[j].delta.description

\* C4 witness: state and target hold a controller delta and a path delta, each
\* with another payload in target than in state
C4_Witness ==
    /\ pc = "createMergedItem"
    /\ \E i, j \in 1..2 :
          /\ Len(state) = 2 /\ Len(target) = 2
          /\ state[i].delta.type = trackController
          /\ target[j].delta.type = trackController
          /\ state[i].data # target[j].data
          /\ state[3 - i].delta.type = trackPath
          /\ target[3 - j].delta.type = trackPath
          /\ state[3 - i].data # target[3 - j].data

\* C6: forward-compatibility. When state holds no time-signature delta and target
\* holds one, the output of createMergedItem holds exactly one time-signature
\* delta, with the payload of the delta of target.
C6_ForwardCompatibility ==
    (pc = "createMergedItem" /\ timeSignaturesChanged \notin TypesOf(state)) =>
        \A j \in DeltasOfType(target, timeSignaturesChanged) :
            \E k \in 1..Len(merged) :
                /\ DeltasOfType(merged, timeSignaturesChanged) = {k}
                /\ merged[k].data = target[j].data

\* C6 witness: a state of two deltas without a time signature, merged with a
\* target whose time-signature delta is not empty
C6_Witness ==
    /\ pc = "createMergedItem"
    /\ Len(state) = 2
    /\ timeSignaturesChanged \notin TypesOf(state)
    /\ \E j \in DeltasOfType(target, timeSignaturesChanged) :
          target[j].data # EmptyTree(timeSignaturesChanged)

\* C7: schema conformity. The output of createMergedItem holds at least one
\* time-signature delta and at least one delta of the clips family; when neither
\* state nor target holds the family, the delta has the empty payload.
C7_SchemaConformity ==
    pc = "createMergedItem" =>
        /\ DeltasOfType(merged, timeSignaturesChanged) # {}
        /\ TypesOf(merged) \cap ClipsTypes # {}
        /\ timeSignaturesChanged \notin (TypesOf(state) \cup TypesOf(target)) =>
              \A k \in DeltasOfType(merged, timeSignaturesChanged) :
                  merged[k].data = EmptyTree(timeSignaturesChanged)
        /\ (TypesOf(state) \cup TypesOf(target)) \cap ClipsTypes = {} =>
              \A k \in 1..Len(merged) :
                  merged[k].delta.type \in ClipsTypes =>
                      /\ merged[k].delta.type = clipsAdded
                      /\ merged[k].data = EmptyTree(clipsAdded)

\* C7 witness: neither state nor target holds a time-signature or a clips delta
C7_Witness ==
    /\ pc = "createMergedItem"
    /\ Len(state) = 2
    /\ Len(target) = 2
    /\ timeSignaturesChanged \notin (TypesOf(state) \cup TypesOf(target))
    /\ (TypesOf(state) \cup TypesOf(target)) \cap ClipsTypes = {}

\* C8: one delta per type in the merge result. For state and target that each
\* hold at most one delta of each type, the output of createMergedItem holds at
\* most one delta of each type, also when state and target hold several deltas
\* of one family.
C8_OneDeltaPerType ==
    pc = "createMergedItem" => OneDeltaPerType(merged)


\* the condition of line 97 for the delta j of target: state has no delta of the
\* type and the payload is not the default one, or state has one with another payload
MustEmit(j) ==
    \/ /\ \A i \in 1..Len(state) : state[i].delta.type # target[j].delta.type
       /\ target[j].data # EmptyTree(target[j].delta.type)
    \/ \E i \in 1..Len(state) :
          /\ state[i].delta.type = target[j].delta.type
          /\ state[i].data # target[j].data

\* the delta of target that a delta of the diff can come from
DiffOrigin(type) ==
    IF type \in EventsTypes THEN eventsAdded
    ELSE IF type \in ClipsTypes THEN clipsAdded
    ELSE type

\* C11: createDiff emission rule. A delta of target gives DeltaDiffs only if
\* state has no delta of its type and its payload is not the default one, or
\* state has a delta of its type with another payload; a scalar delta then gives
\* exactly one DeltaDiff of its type with a copy of its payload; a delta of a
\* type createDiff has no branch for gives nothing; the diff of a snapshot
\* against itself is empty.
C11_EmissionRule ==
    pc = "createDiff" =>
        /\ \A j \in 1..Len(target) :
              target[j].delta.type \in ScalarTypes =>
                  IF MustEmit(j)
                  THEN \E k \in 1..Len(diff) :
                          /\ DeltasOfType(diff, target[j].delta.type) = {k}
                          /\ diff[k].data = target[j].data
                  ELSE DeltasOfType(diff, target[j].delta.type) = {}
        /\ \A k \in 1..Len(diff) :
              /\ DiffOrigin(diff[k].delta.type) \in SnapshotTypes
              /\ \E j \in 1..Len(target) :
                    /\ target[j].delta.type = DiffOrigin(diff[k].delta.type)
                    /\ MustEmit(j)
        /\ (\A j \in 1..Len(target) :
                \E i \in 1..Len(state) :
                    /\ state[i].delta.type = target[j].delta.type
                    /\ state[i].data = target[j].data) => diff = <<>>

\* C11 witness: a controller delta with another payload than in state gives one
\* DeltaDiff, and an eventsRemoved delta with records, which state does not
\* hold, gives none
C11_Witness ==
    /\ pc = "createDiff"
    /\ Len(target) = 2
    /\ Len(diff) = 1
    /\ \A j \in 1..Len(target) : MustEmit(j)
    /\ \E j \in 1..Len(target) :
          /\ target[j].delta.type = trackController
          /\ \E i \in 1..Len(state) : state[i].delta.type = trackController
    /\ \E j \in 1..Len(target) : target[j].delta.type = eventsRemoved

\* C11 witness: the diff of a snapshot of two deltas against itself
C11_WitnessSelf ==
    /\ pc = "createDiff"
    /\ Len(state) = 2
    /\ Len(target) = 2
    /\ \A j \in 1..Len(target) : state[j].data = target[j].data
    /\ \E j \in 1..Len(target) : target[j].data.children # <<>>
    /\ diff = <<>>

---------------------------------------------------------------------------
(* Properties of the events level, continued *)

\* the payload holds exactly the records of the set, each once
HoldsExactly(data, records) ==
    /\ data.valid
    /\ data.tag = eventsAdded
    /\ Range(data.children) = records
    /\ Len(data.children) = Cardinality(records)

\* C12: missing or invalid payloads are treated as empty. With an invalid state
\* payload mergeAutoEventsAdded returns exactly the records of changes and
\* createAutoEventsDiffs reports every record of changes as added and nothing as
\* removed or changed; with an invalid changes payload each of the three merges
\* returns exactly the records of state; every merge returns a valid payload.
C12_InvalidPayloadsAreEmpty ==
    /\ (evOp = "mergeAutoEventsAdded" /\ ~evState.valid) =>
           HoldsExactly(evResult, Records(evChanges))
    /\ (evOp = "createAutoEventsDiffs" /\ ~evState.valid) =>
           /\ GroupEmitted(eventsAdded, "added {x} events", Records(evChanges))
           /\ DiffsOfType(eventsRemoved) = {}
           /\ DiffsOfType(eventsChanged) = {}
    /\ (evOp \in MergeOps /\ ~evChanges.valid) =>
           HoldsExactly(evResult, Records(evState))
    /\ evOp \in MergeOps => evResult.valid

\* C12 witness: an added-merge of two records into an invalid state payload
C12_Witness ==
    /\ evOp = "mergeAutoEventsAdded"
    /\ ~evState.valid
    /\ Cardinality(Records(evChanges)) = 2
    /\ Len(evResult.children) = 2

\* C12 witness: a changed-merge of an invalid changes payload into two records
C12_WitnessInvalidChanges ==
    /\ evOp = "mergeAutoEventsChanged"
    /\ ~evChanges.valid
    /\ Len(evResult.children) = 2

\* C12 witness: the diff of two records against an invalid state payload
C12_WitnessDiff ==
    /\ evOp = "createAutoEventsDiffs"
    /\ ~evState.valid
    /\ Len(evDiffs) = 1
    /\ Len(evDiffs[1].deltaData.children) = 2

---------------------------------------------------------------------------
(* Properties of the item level, continued *)

\* the orders in which the deltas of a snapshot can be listed
Permutations(items) ==
    {[k \in 1..Len(items) |-> items[f[k]]] :
        f \in {g \in [1..Len(items) -> 1..Len(items)] :
                   \A a, b \in 1..Len(items) : g[a] = g[b] => a = b}}

\* the (delta type, payload) pairs of a snapshot, a payload taken as its scalar
\* value and the set of its records
TypedPayloads(items) ==
    {<<items[k].delta.type, items[k].data.value, Range(items[k].data.children)>> :
        k \in 1..Len(items)}

\* no id is in two deltas of the target that belong to one family
DisjointFamilyIds(items) ==
    \A a, b \in 1..Len(items) :
        (a # b /\ SameFamily(items[a].delta.type, items[b].delta.type)) =>
            RecordIds(items[a].data) \cap RecordIds(items[b].data) = {}

\* C13 as stated: listing the deltas of target in another order does not change
\* the (delta type, payload record set) pairs of the output of createMergedItem
C13_AnyTargetOrder ==
    pc = "createMergedItem" =>
        \A p \in Permutations(target) :
            TypedPayloads(createMergedItem(state, p)) = TypedPayloads(merged)

\* C13: order of the deltas of target. When no id occurs in two deltas of target
\* of one family (events, clips), listing the deltas of target in another order
\* does not change the (delta type, payload record set) pairs of the output of
\* createMergedItem; the deltas of one family are folded in the order listed, so
\* with an id in two of them the last one listed decides.
C13_TargetOrderDisjointIds ==
    (pc = "createMergedItem" /\ DisjointFamilyIds(target)) =>
        \A p \in Permutations(target) :
            TypedPayloads(createMergedItem(state, p)) = TypedPayloads(merged)

\* C13 witness: an added and a removed delta of target with different ids,
\* folded into an events delta of state, the removed one taking its record out
C13_Witness ==
    /\ pc = "createMergedItem"
    /\ DisjointFamilyIds(target)
    /\ Len(target) = 2
    /\ \E a, b \in 1..2 :
          /\ target[a].delta.type = eventsAdded
          /\ target[b].delta.type = eventsRemoved
          /\ target[a].data.children # <<>>
          /\ target[b].data.children # <<>>
    /\ \E i \in 1..Len(state) :
          /\ state[i].delta.type = eventsAdded
          /\ RecordIds(state[i].data) \subseteq RecordIds(target[1].data)
                                                \cup RecordIds(target[2].data)
          /\ state[i].data.children # <<>>
    /\ \E k \in 1..Len(merged) :
          /\ merged[k].delta.type = eventsAdded
          /\ Len(merged[k].data.children) = 1

---------------------------------------------------------------------------
(* Properties of the three merges *)

\* C14: changed-merge keeps the id set of state. With unique ids, the output of
\* mergeAutoEventsChanged has exactly the ids of state, each once; for an id
\* also in changes the record is the one of changes; a record of state with no
\* counterpart in changes is kept as it is; a record of changes whose id is not
\* in state is not added; the merge returns a valid payload.
C14_ChangedKeepsStateIds ==
    evOp = "mergeAutoEventsChanged" =>
        /\ evResult.valid
        /\ evResult.tag = eventsAdded
        /\ RecordIds(evResult) = RecordIds(evState)
        /\ Len(evResult.children) = Cardinality(RecordIds(evState))
        /\ \A r \in Records(evResult) :
              IF r.id \in RecordIds(evChanges)
              THEN r \in Records(evChanges)
              ELSE r \in Records(evState)

\* C14 witness: state holds a record that changes replaces and one it does not
\* have; changes holds a record with an id that state does not have
C14_Witness ==
    /\ evOp = "mergeAutoEventsChanged"
    /\ Cardinality(RecordIds(evState)) = 2
    /\ RecordIds(evState) \ RecordIds(evChanges) # {}
    /\ RecordIds(evChanges) \ RecordIds(evState) # {}
    /\ \E s \in Records(evState) : \E c \in Records(evChanges) :
          s.id = c.id /\ s # c /\ c \in Records(evResult)

\* C15: added-merge is a union biased to state. The output of
\* mergeAutoEventsAdded holds every record of state and exactly those records
\* of changes whose id is not in state; for an id in both, it holds the record
\* of state and not the one of changes.
C15_AddedUnionBiasedToState ==
    evOp = "mergeAutoEventsAdded" =>
        HoldsExactly(evResult,
                     Records(evState)
                         \cup {c \in Records(evChanges) : c.id \notin RecordIds(evState)})

\* C15 witness: an id in both payloads with different fields, and a record of
\* changes with a new id, which is added
C15_Witness ==
    /\ evOp = "mergeAutoEventsAdded"
    /\ \E s \in Records(evState) : \E c \in Records(evChanges) :
          /\ s.id = c.id
          /\ s # c
          /\ s \in Records(evResult)
          /\ c \notin Records(evResult)
    /\ \E c \in Records(evChanges) :
          c.id \notin RecordIds(evState) /\ c \in Records(evResult)
    /\ Len(evResult.children) = 3

\* C16: removed-merge is a set difference by id. The output of
\* mergeAutoEventsRemoved holds exactly the records of state whose id is not in
\* changes, whatever the other fields of the record of changes are, and the
\* payload is tagged eventsAdded.
C16_RemovedDifferenceById ==
    evOp = "mergeAutoEventsRemoved" =>
        HoldsExactly(evResult,
                     {s \in Records(evState) : s.id \notin RecordIds(evChanges)})

\* C16 witness: a record of state removed by a record of changes of the same id
\* and other fields, and a record of state that is kept
C16_Witness ==
    /\ evOp = "mergeAutoEventsRemoved"
    /\ \E s \in Records(evState) : \E c \in Records(evChanges) :
          s.id = c.id /\ s # c /\ s.id \notin RecordIds(evResult)
    /\ RecordIds(evChanges) \ RecordIds(evState) # {}
    /\ Len(evResult.children) = 1

---------------------------------------------------------------------------
(* Properties of the item level: deltas that only the target holds *)

\* the types merged one to one that the second pass does not synthesize
PlainScalarTypes == {trackPath, trackColour, trackInstrument, trackController}

\* the types a delta of the output can have, given the types of state: a type
\* of state, the consolidated delta of a family of state, or a synthesized one
OutputTypes ==
    TypesOf(state)
        \cup (IF TypesOf(state) \cap EventsTypes # {} THEN {eventsAdded} ELSE {})
        \cup {timeSignaturesChanged, clipsAdded}

\* C17: deltas that only target holds are not merged in. When target holds a
\* path, colour, instrument or controller delta and state holds none of that
\* type, or an events delta and state holds none of the events family, the
\* output of createMergedItem holds no delta of that type or family; a type of
\* the output that state does not hold is the consolidated type of a family of
\* state, or the time-signature or clipsAdded type of the second pass, which
\* takes the payload of target.
C17_TargetOnlyNotMerged ==
    pc = "createMergedItem" =>
        /\ \A j \in 1..Len(target) :
              /\ (target[j].delta.type \in PlainScalarTypes
                  /\ target[j].delta.type \notin TypesOf(state)) =>
                     DeltasOfType(merged, target[j].delta.type) = {}
              /\ (target[j].delta.type \in EventsTypes
                  /\ TypesOf(state) \cap EventsTypes = {}) =>
                     TypesOf(merged) \cap EventsTypes = {}
        /\ TypesOf(merged) \subseteq OutputTypes
        /\ \A j \in 1..Len(target) :
              (TypesOf(state) \cap ClipsTypes = {}
               /\ TypesOf(target) \cap ClipsTypes = {clipsAdded}
               /\ target[j].delta.type = clipsAdded) =>
                  \E k \in 1..Len(merged) :
                      /\ DeltasOfType(merged, clipsAdded) = {k}
                      /\ Range(merged[k].data.children) = Range(target[j].data.children)

\* C17 witness: target holds a path delta and an events delta with a record,
\* state holds two deltas of other types, none of the events family
C17_Witness ==
    /\ pc = "createMergedItem"
    /\ Len(state) = 2
    /\ TypesOf(state) \cap (EventsTypes \cup {trackPath}) = {}
    /\ Len(target) = 2
    /\ \E j \in 1..Len(target) : target[j].delta.type = trackPath
    /\ \E j \in 1..Len(target) :
          /\ target[j].delta.type = eventsAdded
          /\ target[j].data.children # <<>>
    /\ TypesOf(merged) \cap (EventsTypes \cup {trackPath}) = {}

\* C17 witness: the time-signature delta and the clips delta of target are
\* brought into the output of a state that holds neither
C17_WitnessBroughtIn ==
    /\ pc = "createMergedItem"
    /\ Len(state) = 1
    /\ TypesOf(target) = {timeSignaturesChanged, clipsAdded}
    /\ TypesOf(state) \cap (ClipsTypes \cup {timeSignaturesChanged}) = {}
    /\ \A j \in 1..Len(target) : target[j].data # EmptyTree(target[j].delta.type)
    /\ \A j \in 1..Len(target) :
          \E k \in 1..Len(merged) :
              /\ merged[k].delta.type = target[j].delta.type
              /\ merged[k].data = target[j].data

=============================================================================
